---- MODULE Spec2Model ----
(***************************************************************************)
(* A model of fscache: the Cache registry (fscache.go), the Stream         *)
(* (stream.go), the Writer with its latch (writer.go) and the Reader.      *)
(*                                                                         *)
(* The specifications of the module, each over its own variables:          *)
(*   Spec            the Cache: Get / Remove / the reaper tick / handle    *)
(*                   Close over several keys and goroutines; a Stream is   *)
(*                   its handle count, its removing flag and its file.     *)
(*   SpecFair        Spec with a Remove under way running on and the       *)
(*                   clients closing every handle they hold.               *)
(*   SpecGetFair     Spec with a Get and a tick under way running on.      *)
(*   SpecClean       Spec with a client that also calls Clean, and Remove  *)
(*                   on names without an entry.                            *)
(*   SpecStream      one Stream at byte level: Write / Close of the        *)
(*                   Writer, NextReader, Read / ReadAt / Close of the      *)
(*                   Readers, the latch (RWMutex and sync.Cond) step by    *)
(*                   step.                                                 *)
(*   SpecStreamFair  SpecStream with the calls under way running on.       *)
(*   SpecLoad        a new Cache constructed over a directory of files.    *)
(*   SpecHandle      the handles of one Stream: NextReader and Remove      *)
(*                   step by step, Close of the Readers and the Writer.    *)
(*   SpecHandleFair  SpecHandle with the calls under way running on.       *)
(*   SpecSize        one key of a cache without a reaper: its Streams,     *)
(*                   their Writers' sizes and the file at its path.        *)
(*   SpecWriter      one Writer called by several goroutines: Write and    *)
(*                   Close step by step, its lock, its size and its file.  *)
(*   SpecGetWriter   one Stream whose GetWriter several goroutines call,   *)
(*                   step by step, with the Writers they get.              *)
(***************************************************************************)
EXTENDS Integers, Sequences, FiniteSets, TLC

\* ---------------------------------------------------------------- bounds
NumKeys == 2
NumProcs == 2
MaxStreams == 2
MaxReaders == 1
MaxBytes == 2
\* The longest p handed to Write, Read and ReadAt.
MaxBuf == MaxBytes

Keys == 1..NumKeys
Procs == 1..NumProcs
StreamIds == 1..MaxStreams
\* SpecStream: each goroutine holds at most one Reader of the Stream.
Readers == 1..NumProcs

\* A missing map entry / a nil *Stream.
NoStream == 0
\* The holder of c.mu while cache.haunt runs.
ReaperId == NumProcs + 1

VARIABLES
    \* ---- the cache (Spec)
    streams,    \* cache.streams: digest -> *Stream (NoStream: no entry)
    mu,         \* cache.mu: 0 free, a goroutine's id holding Lock
    st,         \* the Stream objects allocated so far
    nstreams,   \* how many Stream objects were allocated
    fexists,    \* the filesystem: does the file of this digest exist
    root,       \* the filesystem: does the cache's root directory exist
    pc,         \* per goroutine: where it is in Get / Remove
    pkey,       \* per goroutine: the name it was called with
    ps,         \* per goroutine: the local variable s
    tpc,        \* the reaper goroutine: where it is in haunt
    todo,       \* haunt: the entries its range loop has yet to produce
    tkey,       \* haunt: the loop variable key
    ts,         \* haunt: the loop variable s
    \* ---- history of the cache, read by the properties only
    last,       \* the Get that returned last and its results
    wret,       \* per key: a Get returned a writer and no Remove/reap step since
    afterW,     \* per goroutine: its Get began when wret held for its key
    tickIdle,   \* haunt: the entries idle and past the expiry when the tick began
    \* ---- one Stream at byte level (SpecStream)
    file,       \* the bytes of the Stream's file, in file order
    size,       \* Writer.size: the published size
    closed,     \* Writer.closed
    wlock,      \* Writer.mu: is Lock held
    rlocks,     \* Writer.mu: the Readers holding RLock
    wpc,        \* the writing goroutine: where it is in Write / Close
    wrote,      \* Write: what file.Write returned
    scnt,       \* Stream.cnt
    rd,         \* per Reader: its handle, its cursor and the call it is in
    srm,        \* Stream.Remove: "no", "wait" (marked, in grp.Wait), "unlink", "done"
    \* ---- a Cache constructed over a directory of earlier files (SpecLoad)
    disk,       \* the directory: per digest, is there a file and its bytes
    lpc,        \* "down" (no Cache yet), "load" (in cache.load), "up"
    lvia,       \* which load runs: "ReadDir" (fscache.go) or "Reload" (fs.go)
    ltodo,      \* load: the directory entries its range loop has yet to produce
    lreg,       \* the new Cache's registry: the digests with an entry
    lget,       \* what the last Get on the new Cache returned
    lrd,        \* the Reader that Get returned: its cursor and what it has read
    lmu,        \* the new Cache's c.mu: "free", or "load" while cache.load holds Lock
    lbad,       \* the directory: the digests whose file fs.Open cannot open
    \* ---- the handles of one Stream (SpecHandle; the Stream is st[TheStream])
    hpc,        \* per goroutine: where it is in NextReader / Remove / Close
    hrd,        \* per goroutine: the Reader NextReader returned to it
    hres,       \* per goroutine: its last NextReader call and what it returned
    hwlock,     \* Writer.mu: is Lock held
    hpanic,     \* the process has panicked
    \* ---- one key of a cache without a reaper, with file sizes (SpecSize)
    zreg,       \* cache.streams[digest of the key] (NoStream: no entry)
    zst,        \* the Stream objects created for the key
    zn,         \* how many were created
    zino,       \* the file at the key's path: the inode's number, 0 for none
    zlen,       \* per inode: the file's length
    zof,        \* per Stream: the inode its Writer's file handle is open on
    zsize,      \* what the last cache.Size returned
    \* ---- one Writer called by several goroutines (SpecWriter)
    w_mu,       \* Writer.mu: 0 free, else the goroutine that took Lock
    w_closed,   \* Writer.closed
    w_size,     \* Writer.size: the published size
    w_file,     \* Writer.file: is the handle open, and the file's length
    w_cnt,      \* Stream.cnt, which on_close decrements
    w_pc,       \* per goroutine: where it is in Write / Close
    w_p,        \* per goroutine: len(p) of its Write
    w_wrote,    \* per goroutine: Write's local wrote
    \* ---- one Stream and the callers of its GetWriter (SpecGetWriter)
    g_writer,   \* Stream.writer: 0 for nil, else the Writer (named by its maker)
    g_cnt,      \* Stream.cnt
    g_len,      \* the length of the file at the Stream's path
    g_off,      \* per Writer: the offset of its file handle
    g_closed,   \* the Writers that were closed
    g_pc,       \* per goroutine: where it is in GetWriter
    g_got,      \* per goroutine: the Writer its last GetWriter returned
    \* ---- history of GetWriter, read by the properties only
    g_made,     \* the Writers NewWriter made
    g_creates   \* how many times fs.Create ran

cvars == <<streams, mu, st, nstreams, fexists, root, pc, pkey, ps,
           tpc, todo, tkey, ts, last, wret, afterW, tickIdle>>

svars == <<file, size, closed, wlock, rlocks, wpc, wrote, scnt, rd, srm>>

lvars == <<disk, lpc, lvia, ltodo, lreg, lget, lrd, lmu, lbad>>

hvars == <<hpc, hrd, hres, hwlock, hpanic>>

zvars == <<zreg, zst, zn, zino, zlen, zof, zsize>>

wvars == <<w_mu, w_closed, w_size, w_file, w_cnt, w_pc, w_p, w_wrote>>

gvars == <<g_writer, g_cnt, g_len, g_off, g_closed, g_pc, g_got, g_made,
           g_creates>>

vars == <<cvars, svars, lvars, hvars, zvars, wvars, gvars>>

\* What the actions of one part of the model leave alone.
outsideCache == <<svars, lvars, hvars, zvars, wvars, gvars>>
outsideStream == <<cvars, lvars, hvars, zvars, wvars, gvars>>
outsideLoad == <<cvars, svars, hvars, zvars, wvars, gvars>>
\* SpecHandle works on a Stream object and its file, not on a cache.
outsideHandle == <<streams, mu, root, pc, pkey, ps, tpc, todo, tkey, ts, last, wret,
                   afterW, tickIdle, svars, lvars, zvars, wvars, gvars>>
outsideSize == <<cvars, svars, lvars, hvars, wvars, gvars>>
outsideWriter == <<cvars, svars, lvars, hvars, zvars, gvars>>
outsideGetWriter == <<cvars, svars, lvars, hvars, zvars, wvars>>

\* ------------------------------------------------------------ the Stream

\* NewStream: no writer, not removing, no handles.
NewStream(name) ==
    [name |-> name, alloc |-> TRUE, cnt |-> 0, removing |-> FALSE,
     writer |-> "nil", wout |-> FALSE, readers |-> 0]

Unallocated ==
    [name |-> 0, alloc |-> FALSE, cnt |-> 0, removing |-> FALSE,
     writer |-> "nil", wout |-> FALSE, readers |-> 0]

\* Stream.inc / Stream.dec: cnt and the WaitGroup grp move together under s.mu,
\* so cnt is also grp's counter. dec_Keep leaves the count as it is.
inc(s) == [s EXCEPT !.cnt = @ + 1]
dec_Keep(s) == s
dec(s) == [s EXCEPT !.cnt = @ - 1]

\* Stream.Remove, lines 172-174: the Stream is marked; markRemoving_Skip
\* leaves it unmarked.
markRemoving_Skip(s) == s
markRemoving(s) == [s EXCEPT !.removing = TRUE]

\* Stream.Close, which cache.Get and cache.openStream call: Close of the
\* Stream's Writer (closed is set, file.Close, on_close which is dec).
StreamClose(s) == [dec(s) EXCEPT !.writer = "closed"]

\* Stream.IsOpen; IsOpen_Never sees no handle.
IsOpen_Never(s) == FALSE
IsOpen(s) == st[s].cnt > 0

\* Stream.isRemoving; isRemoving_Never never sees the flag.
isRemoving_Never(s) == FALSE
isRemoving(s) == st[s].removing

\* grp.Wait() returns once the WaitGroup counter is zero; grpWait_NoWait
\* returns at once.
grpWait_NoWait(s) == TRUE
grpWait(s) == st[s].cnt = 0

\* fs.Open fails when the file does not exist.
OpenOk(name) == fexists[name]

\* Stream.GetWriter on a Stream without a writer: fs.Create (which truncates or
\* creates), a new open Writer, inc.
GetWriter(s) == inc([s EXCEPT !.writer = "open"])

\* CreateStream, which cache.createStream calls: a new Stream with its Writer.
CreateStream(name) == GetWriter(NewStream(name))

\* Stream.NextReader's outcome: "removing" (ErrRemoving), "open" (fs.Open
\* failed, the inc undone by dec) or "ok" (a Reader, cnt one higher).
NextReaderErr(s) ==
    IF isRemoving(s) THEN "ErrRemoving"
    ELSE IF ~OpenOk(st[s].name) THEN "ErrOpen"
    ELSE "nil"

NextReaderState(s) ==
    IF NextReaderErr(s) = "nil"
    THEN [inc(st[s]) EXCEPT !.readers = @ + 1]
    ELSE st[s]

\* ------------------------------------------------------------- the cache

\* fileName is the hex md5 of the name: keys are numbered and a key's number
\* also stands for its digest (distinct keys have distinct digests).
fileName(name) == name

\* cache.getStream; getStream_Miss finds no entry.
getStream_Miss(name) == NoStream
getStream(name) == streams[fileName(name)]

\* What a Get returned: (r, w, err), r and w named by their Stream. after: the
\* call began when wret held for its key.
Returned(r, w, e, after) ==
    [op |-> "Get", r |-> r, w |-> w, err |-> e, after |-> after]
NoCall == [op |-> "none", r |-> NoStream, w |-> NoStream, err |-> "nil",
           after |-> FALSE]

\* Stream ids are handed out in order; a Get that may miss reserves one.
Reserved == Cardinality({p \in Procs : pc[p] = "get_lock"})

CacheInit ==
    /\ streams = [k \in Keys |-> NoStream]
    /\ mu = 0
    /\ st = [s \in StreamIds |-> Unallocated]
    /\ nstreams = 0
    /\ fexists = [k \in Keys |-> FALSE]
    /\ root = TRUE
    /\ pc = [p \in Procs |-> "idle"]
    /\ pkey = [p \in Procs |-> 1]
    /\ ps = [p \in Procs |-> NoStream]
    /\ last = NoCall
    /\ tpc = "idle"
    /\ todo = {}
    /\ tkey = 1
    /\ ts = NoStream
    /\ wret = [k \in Keys |-> FALSE]
    /\ afterW = [p \in Procs |-> FALSE]
    /\ tickIdle = {}

\* cache.Get, lines 208-215: the lookup under RLock. On a hit NextReader runs
\* under the same RLock and Get returns (r, nil, err).
GetHit(p, name) ==
    /\ pc[p] = "idle"
    /\ mu = 0
    /\ getStream(name) # NoStream
    /\ LET s == getStream(name) IN
       /\ st[s].readers < MaxReaders
       /\ st' = [st EXCEPT ![s] = NextReaderState(s)]
       /\ last' = Returned(IF NextReaderErr(s) = "nil" THEN s ELSE NoStream,
                     NoStream, NextReaderErr(s), wret[fileName(name)])
    /\ UNCHANGED <<streams, mu, nstreams, fexists, pc, pkey, ps, tpc,
                   todo, tkey, ts, wret, afterW, tickIdle,
                   root>>
    /\ UNCHANGED outsideCache

\* cache.Get, lines 208-215 on a miss: RUnlock, then wait for Lock.
GetMiss(p, name) ==
    /\ pc[p] = "idle"
    /\ mu = 0
    /\ getStream(name) = NoStream
    /\ nstreams + Reserved < MaxStreams
    /\ pc' = [pc EXCEPT ![p] = "get_lock"]
    /\ pkey' = [pkey EXCEPT ![p] = name]
    /\ afterW' = [afterW EXCEPT ![p] = wret[fileName(name)]]
    /\ UNCHANGED <<streams, mu, st, nstreams, fexists, ps, tpc, todo,
                   tkey, ts, last, wret, tickIdle,
                   root>>
    /\ UNCHANGED outsideCache

\* fs.Create fails when the root directory does not exist.
CreateOk == root

\* cache.Get, lines 217-223: Lock, then createStream. The registry is not
\* looked up again under Lock. When createStream fails Get returns its error
\* and unlocks (deferred).
GetCreate(p) ==
    /\ pc[p] = "get_lock"
    /\ mu = 0
    /\ IF CreateOk
       THEN /\ mu' = p
            /\ nstreams' = nstreams + 1
            /\ LET s == nstreams + 1
                   name == fileName(pkey[p]) IN
               /\ st' = [st EXCEPT ![s] = CreateStream(name)]
               /\ fexists' = [fexists EXCEPT ![name] = TRUE]
               /\ ps' = [ps EXCEPT ![p] = s]
            /\ pc' = [pc EXCEPT ![p] = "get_next"]
            /\ UNCHANGED <<pkey, last, afterW>>
       ELSE /\ last' = Returned(NoStream, NoStream, "ErrCreate", afterW[p])
            /\ pc' = [pc EXCEPT ![p] = "idle"]
            /\ pkey' = [pkey EXCEPT ![p] = 1]
            /\ afterW' = [afterW EXCEPT ![p] = FALSE]
            /\ UNCHANGED <<mu, nstreams, st, fexists, ps>>
    /\ UNCHANGED <<streams, tpc, todo, tkey, ts, wret, tickIdle, root>>
    /\ UNCHANGED outsideCache

\* cache.putStream
putStream(name, s) == [streams EXCEPT ![fileName(name)] = s]

\* cache.Get, lines 225-235: NextReader on the new Stream; on success
\* putStream, Unlock (deferred) and return (r, s, nil).
GetPut(p) ==
    /\ pc[p] = "get_next"
    /\ NextReaderErr(ps[p]) = "nil"
    /\ st' = [st EXCEPT ![ps[p]] = [NextReaderState(ps[p]) EXCEPT !.wout = TRUE]]
    /\ streams' = putStream(pkey[p], ps[p])
    /\ mu' = 0
    /\ last' = Returned(ps[p], ps[p], "nil", afterW[p])
    /\ wret' = [wret EXCEPT ![fileName(pkey[p])] = TRUE]
    /\ pc' = [pc EXCEPT ![p] = "idle"]
    /\ ps' = [ps EXCEPT ![p] = NoStream]
    /\ pkey' = [pkey EXCEPT ![p] = 1]
    /\ afterW' = [afterW EXCEPT ![p] = FALSE]
    /\ UNCHANGED <<nstreams, fexists, tpc, todo, tkey, ts, tickIdle,
                   root>>
    /\ UNCHANGED outsideCache

\* cache.Get, lines 226-230: NextReader failed; s.Close() closes the Writer
\* (dec), s.Remove() marks the Stream, passes grp.Wait when no handle is left
\* and unlinks.
GetFail(p) ==
    /\ pc[p] = "get_next"
    /\ NextReaderErr(ps[p]) # "nil"
    /\ StreamClose(st[ps[p]]).cnt = 0
    /\ st' = [st EXCEPT ![ps[p]] = markRemoving(StreamClose(st[ps[p]]))]
    /\ fexists' = [fexists EXCEPT ![st[ps[p]].name] = FALSE]
    /\ mu' = 0
    /\ last' = Returned(NoStream, NoStream, NextReaderErr(ps[p]), afterW[p])
    /\ pc' = [pc EXCEPT ![p] = "idle"]
    /\ ps' = [ps EXCEPT ![p] = NoStream]
    /\ pkey' = [pkey EXCEPT ![p] = 1]
    /\ afterW' = [afterW EXCEPT ![p] = FALSE]
    /\ UNCHANGED <<streams, nstreams, tpc, todo, tkey, ts, wret,
                   tickIdle,
                   root>>
    /\ UNCHANGED outsideCache

\* delete(c.streams, key); delete_Keep leaves the entry in the map.
delete_Keep(key) == streams
delete(key) == [streams EXCEPT ![key] = NoStream]

\* cache.getStream's second result; ok_Always finds an entry for every name.
ok_Always(name) == TRUE
ok(name) == getStream(name) # NoStream

\* cache.Remove, line 244: c.mu.Unlock() comes before s.Remove(), so the lock
\* is free when Remove goes on; Unlock_AfterRemove leaves it with the caller.
Unlock_AfterRemove(p) == p
Unlock(p) == 0

\* cache.Remove, lines 238-249, and Stream.Remove, lines 172-174, on a name
\* with an entry: detach the entry under Lock and mark the Stream removing (no
\* goroutine can reach a detached Stream's flag in between).
RemoveDetach(p, name) ==
    /\ pc[p] = "idle"
    /\ mu = 0
    /\ ok(name)
    /\ streams' = delete(fileName(name))
    /\ ps' = [ps EXCEPT ![p] = getStream(name)]
    /\ st' = [st EXCEPT ![getStream(name)].removing = TRUE]
    /\ pc' = [pc EXCEPT ![p] = "rm_wait"]
    /\ pkey' = [pkey EXCEPT ![p] = name]
    /\ wret' = [wret EXCEPT ![fileName(name)] = FALSE]
    /\ mu' = Unlock(p)
    /\ UNCHANGED <<nstreams, fexists, tpc, todo, tkey, ts, afterW, tickIdle,
                   last, root>>
    /\ UNCHANGED outsideCache

\* What a Remove that found no entry returned: nil.
RemovedNothing == [op |-> "Remove", r |-> NoStream, w |-> NoStream,
                   err |-> "nil", after |-> FALSE]

\* cache.Remove, lines 238-249, on a name without an entry: Lock, the lookup,
\* Unlock, return nil. It moves none of the cache's state, so Spec leaves
\* the call out; SpecClean has it, with its return in the history.
RemoveMissing(p, name) ==
    /\ pc[p] = "idle"
    /\ mu = 0
    /\ ~ok(name)
    /\ last' = RemovedNothing
    /\ UNCHANGED <<streams, mu, st, nstreams, fexists, root, pc, pkey, ps, tpc,
                   todo, tkey, ts, wret, afterW, tickIdle>>
    /\ UNCHANGED outsideCache

\* Stream.Remove, line 175: s.grp.Wait().
RemoveWait(p) ==
    /\ pc[p] = "rm_wait"
    /\ grpWait(ps[p])
    /\ pc' = [pc EXCEPT ![p] = "rm_unlink"]
    /\ UNCHANGED <<streams, mu, st, nstreams, fexists, pkey, ps, last,
                   tpc, todo, tkey, ts, wret, afterW, tickIdle,
                   root>>
    /\ UNCHANGED outsideCache

\* fs.Remove(name) unlinks the file; fsRemove_Keep leaves it there.
fsRemove_Keep(name) == fexists
fsRemove(name) == [fexists EXCEPT ![name] = FALSE]

\* Stream.Remove, line 176: s.fs.Remove(s.Name()), whose error Remove returns.
RemoveUnlink(p) ==
    /\ pc[p] = "rm_unlink"
    /\ LET name == st[ps[p]].name IN
       /\ fexists' = fsRemove(name)
       /\ UNCHANGED last
       /\ wret' = [wret EXCEPT ![name] = FALSE]
    /\ pc' = [pc EXCEPT ![p] = "idle"]
    /\ ps' = [ps EXCEPT ![p] = NoStream]
    /\ pkey' = [pkey EXCEPT ![p] = 1]
    /\ UNCHANGED <<streams, mu, st, nstreams, tpc, todo, tkey, ts, afterW, tickIdle,
                   root>>
    /\ UNCHANGED outsideCache

\* The callers that are in Stream.Remove of Stream s (lines 171-177): the
\* goroutines whose cache.Remove has reached s.Remove(), and the reaper when
\* its tick has; pcx, psx, tpcx and tsx are where the callers stand.
InStreamRemove(s, pcx, psx, tpcx, tsx) ==
    {p \in Procs : pcx[p] \in {"rm_wait", "rm_unlink"} /\ psx[p] = s}
        \cup (IF tpcx \in {"remove", "unlink"} /\ tsx = s THEN {ReaperId} ELSE {})

\* The cache is in use: some Stream has a live handle.
InUse == \E s \in StreamIds : st[s].cnt > 0

\* cache.Clean, lines 253-255, called when no stream is in use: Lock, then
\* the registry is replaced by an empty map.
CleanSwap(p) ==
    /\ pc[p] = "idle"
    /\ mu = 0
    /\ ~InUse
    /\ mu' = p
    /\ streams' = [k \in Keys |-> NoStream]
    /\ pc' = [pc EXCEPT ![p] = "cl_rm"]
    /\ wret' = [k \in Keys |-> FALSE]
    /\ UNCHANGED <<st, nstreams, fexists, root, pkey, ps, tpc, todo, tkey, ts,
                   last, afterW, tickIdle>>
    /\ UNCHANGED outsideCache

\* os.RemoveAll(path) removes the directory and every file in it;
\* RemoveAll_Nothing removes nothing.
RemoveAll_Nothing == fexists
RemoveAll == [k \in Keys |-> FALSE]

\* cache.Clean, line 256: os.RemoveAll(c.root), still under Lock.
CleanRemoveAll(p) ==
    /\ pc[p] = "cl_rm"
    /\ fexists' = RemoveAll
    /\ root' = FALSE
    /\ pc' = [pc EXCEPT ![p] = "cl_ret"]
    /\ UNCHANGED <<streams, mu, st, nstreams, pkey, ps, tpc, todo, tkey, ts,
                   last, wret, afterW, tickIdle>>
    /\ UNCHANGED outsideCache

\* cache.Clean returns RemoveAll's error: Unlock (deferred).
CleanReturn(p) ==
    /\ pc[p] = "cl_ret"
    /\ mu' = 0
    /\ pc' = [pc EXCEPT ![p] = "idle"]
    /\ UNCHANGED <<streams, st, nstreams, fexists, root, pkey, ps, tpc, todo,
                   tkey, ts, last, wret, afterW, tickIdle>>
    /\ UNCHANGED outsideCache

\* Reader.Close on a live Reader of Stream s: file.Close, then on_close (dec).
ReaderClose(s) ==
    /\ st[s].readers > 0
    /\ st' = [st EXCEPT ![s] = [dec(st[s]) EXCEPT !.readers = @ - 1]]
    /\ UNCHANGED <<streams, mu, nstreams, fexists, pc, pkey, ps, last,
                   tpc, todo, tkey, ts, wret, afterW, tickIdle,
                   root>>
    /\ UNCHANGED outsideCache

\* Close of the writer Get returned: closed is set, then on_close (dec).
WriterClose(s) ==
    /\ st[s].wout
    /\ st[s].writer = "open"
    /\ st' = [st EXCEPT ![s] = [dec(st[s]) EXCEPT !.writer = "closed"]]
    /\ UNCHANGED <<streams, mu, nstreams, fexists, pc, pkey, ps, last,
                   tpc, todo, tkey, ts, wret, afterW, tickIdle,
                   root>>
    /\ UNCHANGED outsideCache

\* --------------------------------------------------------------- the reaper

\* fs.AccessTimes stats the file: it fails when the file does not exist;
\* AccessTimesOk_Never fails on every file.
AccessTimesOk_Never(name) == FALSE
AccessTimesOk(name) == fexists[name]

\* Reaper.Reap(key, lastRead, lastWrite): true for an entry that was idle
\* with its last read older than the expiry when the tick began (an idle
\* Stream's file times do not move), otherwise either answer.
Reap(name, answer) == name \in tickIdle \/ answer

\* cache.haunt, lines 104-107: Lock, then range over c.streams.
TickStart ==
    /\ tpc = "idle"
    /\ mu = 0
    /\ mu' = ReaperId
    /\ tpc' = "loop"
    /\ todo' = {k \in Keys : streams[k] # NoStream}
    /\ \E old \in SUBSET {k \in Keys : /\ streams[k] # NoStream
                                        /\ st[streams[k]].cnt = 0
                                        /\ fexists[st[streams[k]].name]} :
         tickIdle' = old
    /\ UNCHANGED <<streams, st, nstreams, fexists, pc, pkey, ps, last,
                   tkey, ts, wret, afterW,
                   root>>
    /\ UNCHANGED outsideCache

\* cache.haunt, lines 107-110: the next entry; an open Stream is skipped.
TickCheck(k) ==
    /\ tpc = "loop"
    /\ k \in todo
    /\ IF IsOpen(streams[k])
       THEN /\ todo' = todo \ {k}
            /\ UNCHANGED <<tpc, tkey>>
       ELSE /\ tpc' = "times"
            /\ tkey' = k
            /\ UNCHANGED todo
    /\ UNCHANGED <<streams, mu, st, nstreams, fexists, pc, pkey, ps,
                   last, ts, wret, afterW, tickIdle,
                   root>>
    /\ UNCHANGED outsideCache

\* cache.haunt, lines 112-119 and Stream.Remove 172-174: AccessTimes, Reap,
\* then delete the entry and mark the Stream removing.
TickReap ==
    /\ tpc = "times"
    /\ \E answer \in BOOLEAN :
       LET s == streams[tkey] IN
       IF AccessTimesOk(st[s].name) /\ Reap(tkey, answer)
       THEN /\ streams' = delete(tkey)
            /\ st' = [st EXCEPT ![s].removing = TRUE]
            /\ ts' = s
            /\ tpc' = "remove"
            /\ wret' = [wret EXCEPT ![tkey] = FALSE]
            /\ UNCHANGED todo
       ELSE /\ tpc' = "loop"
            /\ todo' = todo \ {tkey}
            /\ UNCHANGED <<streams, st, ts, wret>>
    /\ UNCHANGED <<mu, nstreams, fexists, pc, pkey, ps, last, tkey,
                   afterW, tickIdle,
                   root>>
    /\ UNCHANGED outsideCache

\* cache.haunt, line 119 and Stream.Remove, line 175, still under Lock:
\* grp.Wait().
TickWait ==
    /\ tpc = "remove"
    /\ grpWait(ts)
    /\ tpc' = "unlink"
    /\ UNCHANGED <<streams, mu, st, nstreams, fexists, pc, pkey, ps, last,
                   todo, tkey, ts, wret, afterW, tickIdle,
                   root>>
    /\ UNCHANGED outsideCache

\* Stream.Remove, line 176: fs.Remove, whose error haunt drops.
TickRemove ==
    /\ tpc = "unlink"
    /\ fexists' = fsRemove(st[ts].name)
    /\ todo' = todo \ {tkey}
    /\ tpc' = "loop"
    /\ UNCHANGED <<streams, mu, st, nstreams, pc, pkey, ps, last, tkey,
                   ts, wret, afterW, tickIdle,
                   root>>
    /\ UNCHANGED outsideCache

\* cache.haunt, lines 121-122: the loop is over, Unlock (deferred).
TickEnd ==
    /\ tpc = "loop"
    /\ todo = {}
    /\ mu' = 0
    /\ tpc' = "idle"
    /\ tkey' = 1
    /\ ts' = NoStream
    /\ tickIdle' = {}
    /\ UNCHANGED <<streams, st, nstreams, fexists, pc, pkey, ps, last,
                   todo, wret, afterW,
                   root>>
    /\ UNCHANGED outsideCache

Next ==
    \/ \E p \in Procs, k \in Keys : GetHit(p, k)
    \/ \E p \in Procs, k \in Keys : GetMiss(p, k)
    \/ \E p \in Procs : GetCreate(p)
    \/ \E p \in Procs : GetPut(p)
    \/ \E p \in Procs : GetFail(p)
    \/ \E p \in Procs, k \in Keys : RemoveDetach(p, k)
    \/ \E p \in Procs : RemoveWait(p)
    \/ \E p \in Procs : RemoveUnlink(p)
    \/ \E s \in StreamIds : ReaderClose(s)
    \/ \E s \in StreamIds : WriterClose(s)
    \/ TickStart
    \/ \E k \in Keys : TickCheck(k)
    \/ TickReap
    \/ TickWait
    \/ TickRemove
    \/ TickEnd

\* The cache with a client that also calls Clean, and Remove on names
\* without an entry.
NextClean ==
    \/ Next
    \/ \E p \in Procs, k \in Keys : RemoveMissing(p, k)
    \/ \E p \in Procs : CleanSwap(p)
    \/ \E p \in Procs : CleanRemoveAll(p)
    \/ \E p \in Procs : CleanReturn(p)


\* ------------------------------------------- one Stream at byte level

\* A Reader handle. att: "none" (not yet returned by NextReader), "open",
\* "closed". late: the Writer was closed when NextReader returned it.
\* pc: "idle" outside a call, else the next step of Read / ReadAt.
\* kind, cap, buf, off: the call in progress, len(p), p[:n], ReadAt's off.
\* fpos is the cursor of the Reader's own file handle. got is every byte its
\* Read calls returned, err the error of its last call, at the offset at which
\* that call returned EOF, empty that a call returned no byte and no error.
NoReader ==
    [att |-> "none", late |-> FALSE, pc |-> "idle", kind |-> "Read", cap |-> 0,
     buf |-> <<>>, off |-> 0, read_off |-> 0, fpos |-> 0, got |-> <<>>,
     err |-> "nil", at |-> 0, empty |-> FALSE]

\* CreateStream: NewStream and GetWriter (fs.Create, an open Writer, inc).
StreamInit ==
    /\ file = <<>>
    /\ size = 0
    /\ closed = FALSE
    /\ wlock = FALSE
    /\ rlocks = {}
    /\ wpc = "idle"
    /\ wrote = 0
    /\ scnt = 1
    /\ rd = [r \in Readers |-> NoReader]
    /\ srm = "no"

Min(a, b) == IF a < b THEN a ELSE b

\* The bytes a Write of n bytes appends: each byte is tagged with its place in
\* the order of acceptance.
NewBytes(n) == [i \in 1..n |-> Len(file) + i]

\* cond.Broadcast: every Reader parked in cond.Wait is made runnable; it has
\* yet to take RLock again.
Broadcast(readers) ==
    [r \in Readers |->
        IF readers[r].pc = "parked" THEN [readers[r] EXCEPT !.pc = "relock"]
        ELSE readers[r]]

\* Writer.Write, lines 30-31: Lock, then file.Write takes the bytes
\* (len(p) = 0 included, as in Write(nil)).
WriteFile(n) ==
    /\ wpc = "idle"
    /\ ~closed
    /\ ~wlock /\ rlocks = {}
    /\ Len(file) + n <= MaxBytes
    /\ wlock' = TRUE
    /\ file' = file \o NewBytes(n)
    /\ wrote' = n
    /\ wpc' = "wrote"
    /\ UNCHANGED <<size, closed, rlocks, scnt, rd, srm>>
    /\ UNCHANGED outsideStream

\* Writer.Write, lines 32-35: publish the size, Unlock.
WritePublish ==
    /\ wpc = "wrote"
    /\ size' = IF wrote > 0 THEN size + wrote ELSE size
    /\ wlock' = FALSE
    /\ wpc' = "bcast"
    /\ UNCHANGED <<file, closed, rlocks, wrote, scnt, rd, srm>>
    /\ UNCHANGED outsideStream

\* Writer.Write, lines 36-37: Broadcast, outside the lock, and return
\* (wrote, err).
WriteBroadcast ==
    /\ wpc = "bcast"
    /\ rd' = Broadcast(rd)
    /\ wrote' = 0
    /\ wpc' = "idle"
    /\ UNCHANGED <<file, size, closed, wlock, rlocks, scnt, srm>>
    /\ UNCHANGED outsideStream

\* Writer.Close, lines 57-64, on an open Writer: under Lock set closed and
\* Broadcast, then Unlock.
CloseSet ==
    /\ wpc = "idle"
    /\ ~closed
    /\ ~wlock /\ rlocks = {}
    /\ closed' = TRUE
    /\ rd' = Broadcast(rd)
    /\ wpc' = "closing"
    /\ UNCHANGED <<file, size, wlock, rlocks, wrote, scnt, srm>>
    /\ UNCHANGED outsideStream

\* Writer.Close, lines 65-66: file.Close, then the deferred on_close (dec).
CloseFile ==
    /\ wpc = "closing"
    /\ scnt' = scnt - 1
    /\ wpc' = "idle"
    /\ UNCHANGED <<file, size, closed, wlock, rlocks, wrote, rd, srm>>
    /\ UNCHANGED outsideStream

\* Writer.Close, lines 57-60, on a closed Writer: Lock, then return the error
\* with the lock still held.
CloseAgain ==
    /\ wpc = "idle"
    /\ closed
    /\ ~wlock /\ rlocks = {}
    /\ wlock' = TRUE
    /\ UNCHANGED <<file, size, closed, rlocks, wpc, wrote, scnt, rd, srm>>
    /\ UNCHANGED outsideStream

\* Stream.NextReader on a Stream that is not removing: inc, fs.Open, a Reader
\* on s.writer (which stays set after the Writer is closed).
NextReader(r) ==
    /\ rd[r].att = "none"
    /\ srm = "no"
    /\ rd' = [rd EXCEPT ![r] = [NoReader EXCEPT !.att = "open", !.late = closed]]
    /\ scnt' = scnt + 1
    /\ UNCHANGED <<file, size, closed, wlock, rlocks, wpc, wrote, srm>>
    /\ UNCHANGED outsideStream

\* Reader.Read, lines 60-66: a call with len(p) = n.
ReadCall(r, n) ==
    /\ rd[r].att = "open"
    /\ rd[r].pc = "idle"
    /\ rd' = [rd EXCEPT ![r] = [@ EXCEPT !.pc = "file", !.kind = "Read",
                                         !.cap = n, !.buf = <<>>]]
    /\ UNCHANGED <<file, size, closed, wlock, rlocks, wpc, wrote, scnt, srm>>
    /\ UNCHANGED outsideStream

\* Reader.ReadAt, lines 34-40: a call with len(p) = MaxBuf at offset o.
ReadAtCall(r, o) ==
    /\ rd[r].att = "open"
    /\ rd[r].pc = "idle"
    /\ rd' = [rd EXCEPT ![r] = [@ EXCEPT !.pc = "file", !.kind = "ReadAt",
                                         !.cap = MaxBuf, !.buf = <<>>,
                                         !.off = o]]
    /\ UNCHANGED <<file, size, closed, wlock, rlocks, wpc, wrote, scnt, srm>>
    /\ UNCHANGED outsideStream

\* The offset the call is at: Read's r.read_off, ReadAt's off.
Offset(x) == IF x.kind = "Read" THEN x.read_off ELSE x.off

\* file.Read(p[n:]) reads at the handle's cursor, file.ReadAt(p[n:], off) at
\* off: how many bytes, which bytes, which error. Read at the end of the file
\* gives (0, EOF); ReadAt gives EOF whenever it fills less than p[n:].
FileCount(x) ==
    LET pos == IF x.kind = "Read" THEN x.fpos ELSE x.off
        left == IF Len(file) > pos THEN Len(file) - pos ELSE 0
    IN Min(x.cap - Len(x.buf), left)

\* FileBytes_FromStart reads at the start of the file whatever the offset.
FileBytes_FromStart(pos, m) == SubSeq(file, 1, m)
FileBytes(pos, m) == SubSeq(file, pos + 1, pos + m)

FileErr(x) ==
    LET room == x.cap - Len(x.buf) IN
    IF x.kind = "Read"
    THEN IF FileCount(x) = 0 /\ room > 0 THEN "EOF" ELSE "nil"
    ELSE IF FileCount(x) < room THEN "EOF" ELSE "nil"

\* The call returns (n, e): Read's bytes join what the Reader has read.
Return(x, e) ==
    [x EXCEPT !.pc = "idle", !.err = e, !.cap = 0, !.buf = <<>>, !.off = 0,
              !.kind = "Read",
              !.at = IF e = "EOF" THEN Offset(x) ELSE 0,
              !.empty = @ \/ (e = "nil" /\ Len(x.buf) = 0),
              !.got = IF x.kind = "Read" THEN @ \o x.buf ELSE @]

\* Reader.Read, lines 67-81, and Reader.ReadAt, lines 41-54: one file read,
\* n and the offset move on; with bytes and no error the call returns, on
\* EOF it goes to Writer.Wait.
FileRead(r) ==
    /\ rd[r].pc = "file"
    /\ LET x == rd[r]
           m == FileCount(x)
           pos == IF x.kind = "Read" THEN x.fpos ELSE x.off
           y == [x EXCEPT !.buf = @ \o FileBytes(pos, m),
                          !.read_off = IF x.kind = "Read" THEN @ + m ELSE @,
                          !.fpos = IF x.kind = "Read" THEN @ + m ELSE @,
                          !.off = IF x.kind = "ReadAt" THEN @ + m ELSE @]
       IN rd' = [rd EXCEPT ![r] =
                    IF Len(y.buf) # 0 /\ FileErr(x) = "nil" THEN Return(y, "nil")
                    ELSE IF FileErr(x) = "EOF" THEN [y EXCEPT !.pc = "rlock"]
                    ELSE y]
    /\ UNCHANGED <<file, size, closed, wlock, rlocks, wpc, wrote, scnt, srm>>
    /\ UNCHANGED outsideStream

\* Writer.Wait, line 41, and the second half of cond.Wait: RLock.
WaitRLock(r) ==
    /\ rd[r].pc \in {"rlock", "relock"}
    /\ ~wlock
    /\ rlocks' = rlocks \cup {r}
    /\ rd' = [rd EXCEPT ![r].pc = "check"]
    /\ UNCHANGED <<file, size, closed, wlock, wpc, wrote, scnt, srm>>
    /\ UNCHANGED outsideStream

\* Writer.Wait, line 43: the loop condition; WaitPark_Never leaves the loop
\* whatever the size.
WaitPark_Never(off) == FALSE
WaitPark(off) == ~closed /\ off >= size

\* Reader.Read, line 75, on Wait's (n, open) = (size - off, !closed);
\* WaitEOF_AnyOffset leaves out v == 0.
WaitEOF_AnyOffset(off) == closed
WaitEOF(off) == size - off = 0 /\ closed

\* Writer.Wait, lines 43-46, under RLock: either cond.Wait (join the waiters,
\* RUnlock, park) or return and RUnlock; then Reader.Read, lines 75-77:
\* return (n, EOF) or go round the loop.
WaitCheck(r) ==
    /\ rd[r].pc = "check"
    /\ rlocks' = rlocks \ {r}
    /\ rd' = [rd EXCEPT ![r] =
                IF WaitPark(Offset(@)) THEN [@ EXCEPT !.pc = "parked"]
                ELSE IF WaitEOF(Offset(@)) THEN Return(@, "EOF")
                ELSE [@ EXCEPT !.pc = "file"]]
    /\ UNCHANGED <<file, size, closed, wlock, wpc, wrote, scnt, srm>>
    /\ UNCHANGED outsideStream

\* Reader.Close, lines 86-89: file.Close, then the deferred on_close (dec).
CloseReader(r) ==
    /\ rd[r].att = "open"
    /\ rd[r].pc = "idle"
    /\ rd' = [rd EXCEPT ![r] = [NoReader EXCEPT !.att = "closed"]]
    /\ scnt' = scnt - 1
    /\ UNCHANGED <<file, size, closed, wlock, rlocks, wpc, wrote, srm>>
    /\ UNCHANGED outsideStream

\* Stream.Remove, lines 172-174: the Stream is marked removing.
Remove_Mark ==
    /\ srm = "no"
    /\ srm' = "wait"
    /\ UNCHANGED <<file, size, closed, wlock, rlocks, wpc, wrote, scnt, rd>>
    /\ UNCHANGED outsideStream

\* s.grp.Wait() returns once every handle was closed; grpDone_NoWait returns
\* at once.
grpDone_NoWait == TRUE
grpDone == scnt = 0

\* Stream.Remove, line 175: s.grp.Wait().
Remove_Wait ==
    /\ srm = "wait"
    /\ grpDone
    /\ srm' = "unlink"
    /\ UNCHANGED <<file, size, closed, wlock, rlocks, wpc, wrote, scnt, rd>>
    /\ UNCHANGED outsideStream

\* Stream.Remove, line 176: fs.Remove unlinks the file at the Stream's path.
Remove_Unlink ==
    /\ srm = "unlink"
    /\ srm' = "done"
    /\ UNCHANGED <<file, size, closed, wlock, rlocks, wpc, wrote, scnt, rd>>
    /\ UNCHANGED outsideStream

NextStream ==
    \/ \E n \in 0..MaxBuf : WriteFile(n)
    \/ WritePublish
    \/ WriteBroadcast
    \/ CloseSet
    \/ CloseFile
    \/ CloseAgain
    \/ \E r \in Readers : NextReader(r)
    \/ \E r \in Readers, n \in 1..MaxBuf : ReadCall(r, n)
    \/ \E r \in Readers, o \in 0..MaxBytes : ReadAtCall(r, o)
    \/ \E r \in Readers : FileRead(r)
    \/ \E r \in Readers : WaitRLock(r)
    \/ \E r \in Readers : WaitCheck(r)
    \/ \E r \in Readers : CloseReader(r)
    \/ Remove_Mark
    \/ Remove_Wait
    \/ Remove_Unlink

\* ------------------------------------ a Cache over an existing directory

\* One directory entry: there (the file exists), bytes (its content), old (an
\* earlier Cache wrote it and closed its Writer), stored (what that Writer
\* wrote).
NoFile == [there |-> FALSE, bytes |-> <<>>, old |-> FALSE, stored |-> <<>>]

NoGet == [op |-> "none", key |-> 1, hit |-> FALSE, w |-> "nil"]

\* The Reader of the new Cache. writer: the Stream's writer it was made with.
NoLoadReader ==
    [att |-> "none", key |-> 1, writer |-> "nil", fpos |-> 0, got |-> <<>>,
     err |-> "nil"]

LoadInit ==
    /\ disk = [k \in Keys |-> NoFile]
    /\ lpc = "down"
    /\ lvia = "ReadDir"
    /\ ltodo = <<>>
    /\ lreg = [k \in Keys |-> Unallocated]
    /\ lget = NoGet
    /\ lrd = NoLoadReader
    /\ lmu = "free"
    /\ lbad = {}

\* The earlier Cache on this directory: Get(k) on a miss, Write of n bytes,
\* Close of the Writer and of the Reader. The file is named by k's digest.
StoreFile(k, n) ==
    /\ lpc = "down"
    /\ ~disk[fileName(k)].there
    /\ disk' = [disk EXCEPT ![fileName(k)] =
                   [there |-> TRUE, bytes |-> [i \in 1..n |-> i], old |-> TRUE,
                    stored |-> [i \in 1..n |-> i]]]
    /\ UNCHANGED <<lpc, lvia, ltodo, lreg, lget, lrd, lmu, lbad>>
    /\ UNCHANGED outsideLoad

\* Before the new Cache is made, a file of the directory becomes one that
\* fs.Open fails on (its permissions are taken away).
SpoilFile(k) ==
    /\ lpc = "down"
    /\ disk[fileName(k)].there
    /\ fileName(k) \notin lbad
    /\ lbad' = lbad \cup {fileName(k)}
    /\ UNCHANGED <<disk, lpc, lvia, ltodo, lreg, lget, lrd, lmu>>
    /\ UNCHANGED outsideLoad

\* ioutil.ReadDir: the entries of the directory, sorted by file name.
RECURSIVE ReadDir(_)
ReadDir(k) ==
    IF k > NumKeys THEN <<>>
    ELSE IF disk[k].there THEN <<k>> \o ReadDir(k + 1)
    ELSE ReadDir(k + 1)

\* OpenStream, which cache.openStream calls on a file of the directory: a
\* Stream on the file without a Writer; openStream's s.Close() then finds
\* no Writer to close.
OpenStream(name) == NewStream(name)

\* cache.openStream, lines 158-161: OpenStream's error is that of fs.Open.
openStreamOk(name) == name \notin lbad

\* cache.load of fscache.go, lines 125-131: Lock, ReadDir.
loadReadDir ==
    /\ lpc = "down"
    /\ lmu = "free"
    /\ lmu' = "load"
    /\ lpc' = "load"
    /\ lvia' = "ReadDir"
    /\ ltodo' = ReadDir(1)
    /\ UNCHANGED <<disk, lreg, lget, lrd, lbad>>
    /\ UNCHANGED outsideLoad

\* cache.load of fscache.go, lines 133-144: the next entry is opened and
\* registered under its file name.
loadRegister ==
    /\ lpc = "load"
    /\ lvia = "ReadDir"
    /\ ltodo # <<>>
    /\ openStreamOk(Head(ltodo))
    /\ lreg' = [lreg EXCEPT ![Head(ltodo)] = OpenStream(Head(ltodo))]
    /\ ltodo' = Tail(ltodo)
    /\ UNCHANGED <<disk, lpc, lvia, lget, lrd, lmu, lbad>>
    /\ UNCHANGED outsideLoad

\* cache.load of fscache.go, lines 136-139: openStream failed; load calls
\* c.Remove(key), whose first statement (line 238) is c.mu.Lock(). Lock
\* returns once c.mu is free; what Remove does then is not written out, no
\* run of the model getting that far.
loadOpenFailed ==
    /\ lpc = "load"
    /\ lvia = "ReadDir"
    /\ ltodo # <<>>
    /\ ~openStreamOk(Head(ltodo))
    /\ lpc' = "remove_lock"
    /\ UNCHANGED <<disk, lvia, ltodo, lreg, lget, lrd, lmu, lbad>>
    /\ UNCHANGED outsideLoad

\* cache.load of unnamed/part_002, lines 118-121, and stdFs.Reload of fs.go,
\* lines 117-121: Lock, ReadDir.
ReloadReadDir ==
    /\ lpc = "down"
    /\ lmu = "free"
    /\ lmu' = "load"
    /\ lpc' = "load"
    /\ lvia' = "Reload"
    /\ ltodo' = ReadDir(1)
    /\ UNCHANGED <<disk, lreg, lget, lrd, lbad>>
    /\ UNCHANGED outsideLoad

\* stdFs.Reload, lines 123-127: add(f.Name()) registers the entry, and the
\* return nil inside the loop ends the range.
ReloadAdd ==
    /\ lpc = "load"
    /\ lvia = "Reload"
    /\ ltodo # <<>>
    /\ lreg' = [lreg EXCEPT ![Head(ltodo)] = OpenStream(Head(ltodo))]
    /\ ltodo' = <<>>
    /\ UNCHANGED <<disk, lpc, lvia, lget, lrd, lmu, lbad>>
    /\ UNCHANGED outsideLoad

\* The range loop is over: load returns nil, Unlock (deferred); New returns
\* the Cache.
loadReturn ==
    /\ lpc = "load"
    /\ ltodo = <<>>
    /\ lmu' = "free"
    /\ lpc' = "up"
    /\ UNCHANGED <<disk, lvia, ltodo, lreg, lget, lrd, lbad>>
    /\ UNCHANGED outsideLoad

\* cache.Get on the new Cache, of a key whose file can be opened. On a hit:
\* NextReader (inc, fs.Open, a Reader made with s.writer), (r, nil, nil). On
\* a miss: createStream truncates or creates the file, NextReader, putStream,
\* (r, s, nil).
LoadedGet(k) ==
    /\ lpc = "up"
    /\ lrd.att = "none"
    /\ fileName(k) \notin lbad
    /\ LET key == fileName(k) IN
       IF lreg[key].alloc
       THEN /\ lreg' = [lreg EXCEPT ![key] = inc(@)]
            /\ lrd' = [NoLoadReader EXCEPT !.att = "open", !.key = key,
                                           !.writer = lreg[key].writer]
            /\ lget' = [op |-> "Get", key |-> key, hit |-> TRUE, w |-> "nil"]
            /\ UNCHANGED disk
       ELSE /\ lreg' = [lreg EXCEPT ![key] = inc(CreateStream(key))]
            /\ disk' = [disk EXCEPT ![key].there = TRUE, ![key].bytes = <<>>]
            /\ lrd' = [NoLoadReader EXCEPT !.att = "open", !.key = key,
                                           !.writer = "open"]
            /\ lget' = [op |-> "Get", key |-> key, hit |-> FALSE, w |-> "open"]
    /\ UNCHANGED <<lpc, lvia, ltodo, lmu, lbad>>
    /\ UNCHANGED outsideLoad

\* Reader.Read, lines 61-63, on a Reader without a Writer: file.Read(p) with
\* len(p) = n, which gives (0, EOF) at the end of the file. (A Reader with a
\* Writer reads as in SpecStream.)
LoadedRead(n) ==
    /\ lrd.att = "open"
    /\ lrd.writer = "nil"
    /\ LET bytes == disk[lrd.key].bytes
           m == IF Len(bytes) - lrd.fpos < n THEN Len(bytes) - lrd.fpos ELSE n
       IN lrd' = [lrd EXCEPT !.got = @ \o SubSeq(bytes, lrd.fpos + 1, lrd.fpos + m),
                             !.fpos = @ + m,
                             !.err = IF m = 0 THEN "EOF" ELSE "nil"]
    /\ UNCHANGED <<disk, lpc, lvia, ltodo, lreg, lget, lmu, lbad>>
    /\ UNCHANGED outsideLoad

\* Reader.Close, lines 86-89: file.Close, then on_close (dec).
LoadedClose ==
    /\ lrd.att = "open"
    /\ lreg' = [lreg EXCEPT ![lrd.key] = dec(@)]
    /\ lrd' = NoLoadReader
    /\ UNCHANGED <<disk, lpc, lvia, ltodo, lget, lmu, lbad>>
    /\ UNCHANGED outsideLoad

NextLoad ==
    \/ \E k \in Keys, n \in 0..MaxBytes : StoreFile(k, n)
    \/ \E k \in Keys : SpoilFile(k)
    \/ loadReadDir
    \/ loadRegister
    \/ loadOpenFailed
    \/ ReloadReadDir
    \/ ReloadAdd
    \/ loadReturn
    \/ \E k \in Keys : LoadedGet(k)
    \/ \E n \in 1..MaxBuf : LoadedRead(n)
    \/ LoadedClose

\* ------------------------------------------- the handles of one Stream

\* The Stream the goroutines of SpecHandle share, and its file's name.
TheStream == 1

\* How many times a goroutine calls Close on its Reader.
MaxCloses == 2

\* A NextReader call. marked: the Stream was marked removing when the call
\* began; late: it was when the call did its inc; delta: inc less dec so far.
NoResult == [op |-> "none", marked |-> FALSE, late |-> FALSE, err |-> "nil",
             r |-> FALSE, delta |-> 0]

HandleInit ==
    /\ hpc = [p \in Procs |-> "idle"]
    /\ hrd = [p \in Procs |-> [att |-> "none", closes |-> 0]]
    /\ hres = [p \in Procs |-> NoResult]
    /\ hwlock = FALSE
    /\ hpanic = FALSE

\* sync.WaitGroup: Done on a counter of zero panics (dec has set cnt first).
DonePanics(s) == st[s].cnt = 0

\* CreateStream: the Stream and its Writer.
StreamCreate ==
    /\ nstreams = 0
    /\ nstreams' = 1
    /\ st' = [st EXCEPT ![TheStream] = CreateStream(TheStream)]
    /\ fexists' = [fexists EXCEPT ![TheStream] = TRUE]
    /\ UNCHANGED hvars
    /\ UNCHANGED outsideHandle

\* NewStream alone, on a name without a file: no Writer and no handle.
StreamNew ==
    /\ nstreams = 0
    /\ nstreams' = 1
    /\ st' = [st EXCEPT ![TheStream] = NewStream(TheStream)]
    /\ UNCHANGED fexists
    /\ UNCHANGED hvars
    /\ UNCHANGED outsideHandle

\* A goroutine calls Stream.NextReader.
NextReaderCall(p) ==
    /\ ~hpanic
    /\ st[TheStream].alloc
    /\ hpc[p] = "idle"
    /\ hrd[p].att = "none"
    /\ hpc' = [hpc EXCEPT ![p] = "nr_check"]
    /\ hres' = [hres EXCEPT ![p] =
                   [NoResult EXCEPT !.op = "call",
                                    !.marked = st[TheStream].removing]]
    /\ UNCHANGED <<st, nstreams, fexists, hrd, hwlock, hpanic>>
    /\ UNCHANGED outsideHandle

\* Stream.NextReader, lines 191-193: isRemoving() under s.mu.
NextReaderCheck(p) ==
    /\ ~hpanic
    /\ hpc[p] = "nr_check"
    /\ IF isRemoving(TheStream)
       THEN /\ hpc' = [hpc EXCEPT ![p] = "idle"]
            /\ hres' = [hres EXCEPT ![p].op = "NextReader",
                                    ![p].err = "ErrRemoving"]
       ELSE /\ hpc' = [hpc EXCEPT ![p] = "nr_inc"]
            /\ UNCHANGED hres
    /\ UNCHANGED <<st, nstreams, fexists, hrd, hwlock, hpanic>>
    /\ UNCHANGED outsideHandle

\* Stream.NextReader, line 194: s.inc(), a second section under s.mu.
NextReaderInc(p) ==
    /\ ~hpanic
    /\ hpc[p] = "nr_inc"
    /\ st' = [st EXCEPT ![TheStream] = inc(@)]
    /\ hres' = [hres EXCEPT ![p].late = st[TheStream].removing,
                            ![p].delta = @ + st'[TheStream].cnt
                                           - st[TheStream].cnt]
    /\ hpc' = [hpc EXCEPT ![p] = "nr_open"]
    /\ UNCHANGED <<nstreams, fexists, hrd, hwlock, hpanic>>
    /\ UNCHANGED outsideHandle

\* Stream.NextReader, lines 196-202: fs.Open; a Reader, or dec and the error.
NextReaderOpen(p) ==
    /\ ~hpanic
    /\ hpc[p] = "nr_open"
    /\ hpc' = [hpc EXCEPT ![p] = "idle"]
    /\ IF OpenOk(st[TheStream].name)
       THEN /\ hrd' = [hrd EXCEPT ![p].att = "open"]
            /\ hres' = [hres EXCEPT ![p].op = "NextReader", ![p].r = TRUE]
            /\ UNCHANGED <<st, hpanic>>
       ELSE /\ st' = [st EXCEPT ![TheStream] = dec(@)]
            /\ hpanic' = DonePanics(TheStream)
            /\ hres' = [hres EXCEPT ![p].op = "NextReader", ![p].err = "ErrOpen",
                                    ![p].delta = @ + st'[TheStream].cnt
                                                   - st[TheStream].cnt]
            /\ UNCHANGED hrd
    /\ UNCHANGED <<nstreams, fexists, hwlock>>
    /\ UNCHANGED outsideHandle

\* Stream.Remove, lines 171-174: mark the Stream removing under s.mu.
StreamRemoveMark(p) ==
    /\ ~hpanic
    /\ st[TheStream].alloc
    /\ hpc[p] = "idle"
    /\ st' = [st EXCEPT ![TheStream].removing = TRUE]
    /\ hpc' = [hpc EXCEPT ![p] = "rm_wait"]
    /\ UNCHANGED <<nstreams, fexists, hrd, hres, hwlock, hpanic>>
    /\ UNCHANGED outsideHandle

\* Stream.Remove, line 175: s.grp.Wait().
StreamRemoveWait(p) ==
    /\ ~hpanic
    /\ hpc[p] = "rm_wait"
    /\ grpWait(TheStream)
    /\ hpc' = [hpc EXCEPT ![p] = "rm_unlink"]
    /\ UNCHANGED <<st, nstreams, fexists, hrd, hres, hwlock, hpanic>>
    /\ UNCHANGED outsideHandle

\* Stream.Remove, line 176: s.fs.Remove(s.Name()).
StreamRemoveUnlink(p) ==
    /\ ~hpanic
    /\ hpc[p] = "rm_unlink"
    /\ fexists' = [fexists EXCEPT ![st[TheStream].name] = FALSE]
    /\ hpc' = [hpc EXCEPT ![p] = "idle"]
    /\ UNCHANGED <<st, nstreams, hrd, hres, hwlock, hpanic>>
    /\ UNCHANGED outsideHandle

\* Reader.Close, lines 86-89, on a Reader that is open or already closed:
\* file.Close (an error the second time), then the deferred on_close (dec).
ReaderCloseCall(p) ==
    /\ ~hpanic
    /\ hpc[p] = "idle"
    /\ hrd[p].att \in {"open", "closed"}
    /\ hrd[p].closes < MaxCloses
    /\ hrd' = [hrd EXCEPT ![p].att = "closed", ![p].closes = @ + 1]
    /\ st' = [st EXCEPT ![TheStream] = dec(@)]
    /\ hpanic' = DonePanics(TheStream)
    /\ UNCHANGED <<nstreams, fexists, hpc, hres, hwlock>>
    /\ UNCHANGED outsideHandle

\* A goroutine calls Writer.Close: line 57, w.mu.Lock(), is to come.
WriterCloseCall(p) ==
    /\ ~hpanic
    /\ st[TheStream].alloc
    /\ st[TheStream].writer # "nil"
    /\ hpc[p] = "idle"
    /\ hpc' = [hpc EXCEPT ![p] = "wc_lock"]
    /\ UNCHANGED <<st, nstreams, fexists, hrd, hres, hwlock, hpanic>>
    /\ UNCHANGED outsideHandle

\* Writer.Close, lines 57-66, with the lock taken. On a closed Writer: the
\* error is returned and the lock stays held. On an open one: closed is set,
\* Broadcast, Unlock, file.Close, then the deferred on_close (dec).
WriterCloseLock(p) ==
    /\ ~hpanic
    /\ hpc[p] = "wc_lock"
    /\ ~hwlock
    /\ hpc' = [hpc EXCEPT ![p] = "idle"]
    /\ IF st[TheStream].writer = "closed"
       THEN /\ hwlock' = TRUE
            /\ UNCHANGED <<st, hpanic>>
       ELSE /\ st' = [st EXCEPT ![TheStream] = [dec(@) EXCEPT !.writer = "closed"]]
            /\ hpanic' = DonePanics(TheStream)
            /\ UNCHANGED hwlock
    /\ UNCHANGED <<nstreams, fexists, hrd, hres>>
    /\ UNCHANGED outsideHandle

NextHandle ==
    \/ StreamCreate
    \/ StreamNew
    \/ \E p \in Procs : NextReaderCall(p)
    \/ \E p \in Procs : NextReaderCheck(p)
    \/ \E p \in Procs : NextReaderInc(p)
    \/ \E p \in Procs : NextReaderOpen(p)
    \/ \E p \in Procs : StreamRemoveMark(p)
    \/ \E p \in Procs : StreamRemoveWait(p)
    \/ \E p \in Procs : StreamRemoveUnlink(p)
    \/ \E p \in Procs : ReaderCloseCall(p)
    \/ \E p \in Procs : WriterCloseCall(p)
    \/ \E p \in Procs : WriterCloseLock(p)

\* --------------------------------------------- one key and its file sizes

\* A Stream of the key. size is its Writer's published size, rm where a
\* Remove of it stands: "no", "wait" (marked, in grp.Wait), "done".
NoSized ==
    [alloc |-> FALSE, cnt |-> 0, writer |-> "nil", size |-> 0, readers |-> 0,
     rm |-> "no"]

NoSize == [op |-> "none", s |-> NoStream, n |-> 0, err |-> "nil",
           sealed |-> FALSE]

SizeInit ==
    /\ zreg = NoStream
    /\ zst = [s \in StreamIds |-> NoSized]
    /\ zn = 0
    /\ zino = 0
    /\ zlen = [s \in StreamIds |-> 0]
    /\ zof = [s \in StreamIds |-> 0]
    /\ zsize = NoSize

\* cache.Get on a hit: NextReader on the registered Stream (inc, fs.Open; on
\* an Open error dec and the error).
KeyGetHit ==
    /\ zreg # NoStream
    /\ zst[zreg].readers < MaxReaders
    /\ IF zino # 0
       THEN zst' = [zst EXCEPT ![zreg].cnt = @ + 1, ![zreg].readers = @ + 1]
       ELSE UNCHANGED zst
    /\ UNCHANGED <<zreg, zn, zino, zlen, zof, zsize>>
    /\ UNCHANGED outsideSize

\* cache.Get on a miss: createStream (fs.Create opens the file at the path,
\* truncating the one that is there or making a new one; the Writer; inc),
\* NextReader, putStream.
KeyGetMiss ==
    /\ zreg = NoStream
    /\ zn < MaxStreams
    /\ LET s == zn + 1
           ino == IF zino # 0 THEN zino ELSE s
       IN /\ zn' = s
          /\ zino' = ino
          /\ zof' = [zof EXCEPT ![s] = ino]
          /\ zlen' = [zlen EXCEPT ![ino] = 0]
          /\ zst' = [zst EXCEPT ![s] = [NoSized EXCEPT !.alloc = TRUE, !.cnt = 2,
                                                      !.writer = "open",
                                                      !.readers = 1]]
          /\ zreg' = s
    /\ UNCHANGED zsize
    /\ UNCHANGED outsideSize

\* Writer.Write of n bytes on an open Writer: file.Write puts them at the
\* file handle's offset, which is what this Writer has written so far; the
\* size is published.
KeyWrite(s, n) ==
    /\ zst[s].writer = "open"
    /\ zst[s].size + n <= MaxBytes
    /\ zlen' = [zlen EXCEPT ![zof[s]] =
                   IF @ < zst[s].size + n THEN zst[s].size + n ELSE @]
    /\ zst' = [zst EXCEPT ![s].size = @ + n]
    /\ UNCHANGED <<zreg, zn, zino, zof, zsize>>
    /\ UNCHANGED outsideSize

\* Writer.Close on an open Writer: closed, file.Close, on_close (dec).
KeyWriterClose(s) ==
    /\ zst[s].writer = "open"
    /\ zst' = [zst EXCEPT ![s].writer = "closed", ![s].cnt = @ - 1]
    /\ UNCHANGED <<zreg, zn, zino, zlen, zof, zsize>>
    /\ UNCHANGED outsideSize

\* Reader.Close on an open Reader: file.Close, on_close (dec).
KeyReaderClose(s) ==
    /\ zst[s].readers > 0
    /\ zst' = [zst EXCEPT ![s].readers = @ - 1, ![s].cnt = @ - 1]
    /\ UNCHANGED <<zreg, zn, zino, zlen, zof, zsize>>
    /\ UNCHANGED outsideSize

\* cache.Remove on the key, entry found: delete the entry; Stream.Remove
\* marks the Stream and waits in grp.Wait.
KeyRemove ==
    /\ zreg # NoStream
    /\ zst' = [zst EXCEPT ![zreg].rm = "wait"]
    /\ zreg' = NoStream
    /\ UNCHANGED <<zn, zino, zlen, zof, zsize>>
    /\ UNCHANGED outsideSize

\* Stream.Remove, lines 175-176: grp.Wait has returned; fs.Remove unlinks
\* whatever file is at the Stream's path.
KeyUnlink(s) ==
    /\ zst[s].rm = "wait"
    /\ zst[s].cnt = 0
    /\ zino' = 0
    /\ zst' = [zst EXCEPT ![s].rm = "done"]
    /\ UNCHANGED <<zreg, zn, zlen, zof, zsize>>
    /\ UNCHANGED outsideSize

\* cache.Size on the key: "file not found" without an entry, else
\* Stream.Size, which is fs.Size of the path (os.Stat).
KeySize ==
    /\ zsize' =
         IF zreg = NoStream
         THEN [NoSize EXCEPT !.op = "Size", !.err = "not found"]
         ELSE IF zino = 0
         THEN [NoSize EXCEPT !.op = "Size", !.s = zreg, !.err = "stat"]
         ELSE [op |-> "Size", s |-> zreg, n |-> zlen[zino], err |-> "nil",
               sealed |-> zst[zreg].writer = "closed"]
    /\ UNCHANGED <<zreg, zst, zn, zino, zlen, zof>>
    /\ UNCHANGED outsideSize

NextSize ==
    \/ KeyGetHit
    \/ KeyGetMiss
    \/ \E s \in StreamIds, n \in 1..MaxBuf : KeyWrite(s, n)
    \/ \E s \in StreamIds : KeyWriterClose(s)
    \/ \E s \in StreamIds : KeyReaderClose(s)
    \/ KeyRemove
    \/ \E s \in StreamIds : KeyUnlink(s)
    \/ KeySize

\* ------------------------------------ one Writer and several goroutines

\* NewWriter on the file fs.Create returned, and the inc of GetWriter.
WriterInit ==
    /\ w_mu = 0
    /\ w_closed = FALSE
    /\ w_size = 0
    /\ w_file = [open |-> TRUE, len |-> 0]
    /\ w_cnt = 1
    /\ w_pc = [p \in Procs |-> "idle"]
    /\ w_p = [p \in Procs |-> 0]
    /\ w_wrote = [p \in Procs |-> 0]

\* file.Write(p) with len(p) = n: every byte is taken, or none (and an error)
\* once the handle is closed.
fileWrite(n) == IF w_file.open THEN n ELSE 0

\* Writer.Write, line 30, called with len(p) = n: Lock. closed is not read.
Writer_WriteLock(p, n) ==
    /\ w_pc[p] = "idle"
    /\ w_mu = 0
    /\ w_file.len + n <= MaxBytes
    /\ w_mu' = p
    /\ w_p' = [w_p EXCEPT ![p] = n]
    /\ w_pc' = [w_pc EXCEPT ![p] = "w_file"]
    /\ UNCHANGED <<w_closed, w_size, w_file, w_cnt, w_wrote>>
    /\ UNCHANGED outsideWriter

\* Writer.Write, line 31: wrote, err := w.file.Write(p).
Writer_WriteFile(p) ==
    /\ w_pc[p] = "w_file"
    /\ w_file' = [w_file EXCEPT !.len = @ + fileWrite(w_p[p])]
    /\ w_wrote' = [w_wrote EXCEPT ![p] = fileWrite(w_p[p])]
    /\ w_pc' = [w_pc EXCEPT ![p] = "w_size"]
    /\ UNCHANGED <<w_mu, w_closed, w_size, w_cnt, w_p>>
    /\ UNCHANGED outsideWriter

\* Writer.Write, lines 32-35: the size moves by wrote, Unlock.
Writer_WriteSize(p) ==
    /\ w_pc[p] = "w_size"
    /\ w_size' = IF w_wrote[p] > 0 THEN w_size + w_wrote[p] ELSE w_size
    /\ w_mu' = 0
    /\ w_pc' = [w_pc EXCEPT ![p] = "w_bcast"]
    /\ UNCHANGED <<w_closed, w_file, w_cnt, w_p, w_wrote>>
    /\ UNCHANGED outsideWriter

\* Writer.Write, lines 36-37: Broadcast (no Reader waits here), return wrote.
Writer_WriteReturn(p) ==
    /\ w_pc[p] = "w_bcast"
    /\ w_p' = [w_p EXCEPT ![p] = 0]
    /\ w_wrote' = [w_wrote EXCEPT ![p] = 0]
    /\ w_pc' = [w_pc EXCEPT ![p] = "idle"]
    /\ UNCHANGED <<w_mu, w_closed, w_size, w_file, w_cnt>>
    /\ UNCHANGED outsideWriter

\* Writer.Close, line 57: Lock.
Writer_CloseLock(p) ==
    /\ w_pc[p] = "idle"
    /\ w_mu = 0
    /\ w_mu' = p
    /\ w_pc' = [w_pc EXCEPT ![p] = "c_check"]
    /\ UNCHANGED <<w_closed, w_size, w_file, w_cnt, w_p, w_wrote>>
    /\ UNCHANGED outsideWriter

\* Writer.Close, lines 58-64: on a closed Writer return the error with the
\* lock held; else set closed, Broadcast, Unlock.
Writer_CloseSet(p) ==
    /\ w_pc[p] = "c_check"
    /\ IF w_closed
       THEN /\ w_pc' = [w_pc EXCEPT ![p] = "idle"]
            /\ UNCHANGED <<w_closed, w_mu>>
       ELSE /\ w_closed' = TRUE
            /\ w_mu' = 0
            /\ w_pc' = [w_pc EXCEPT ![p] = "c_file"]
    /\ UNCHANGED <<w_size, w_file, w_cnt, w_p, w_wrote>>
    /\ UNCHANGED outsideWriter

\* Writer.Close, line 66: w.file.Close().
Writer_CloseFile(p) ==
    /\ w_pc[p] = "c_file"
    /\ w_file' = [w_file EXCEPT !.open = FALSE]
    /\ w_pc' = [w_pc EXCEPT ![p] = "c_done"]
    /\ UNCHANGED <<w_mu, w_closed, w_size, w_cnt, w_p, w_wrote>>
    /\ UNCHANGED outsideWriter

\* Writer.Close, line 65: the deferred on_close (Stream.dec), then return.
Writer_OnClose(p) ==
    /\ w_pc[p] = "c_done"
    /\ w_cnt' = w_cnt - 1
    /\ w_pc' = [w_pc EXCEPT ![p] = "idle"]
    /\ UNCHANGED <<w_mu, w_closed, w_size, w_file, w_p, w_wrote>>
    /\ UNCHANGED outsideWriter

NextWriter ==
    \/ \E p \in Procs, n \in 0..MaxBuf : Writer_WriteLock(p, n)
    \/ \E p \in Procs : Writer_WriteFile(p)
    \/ \E p \in Procs : Writer_WriteSize(p)
    \/ \E p \in Procs : Writer_WriteReturn(p)
    \/ \E p \in Procs : Writer_CloseLock(p)
    \/ \E p \in Procs : Writer_CloseSet(p)
    \/ \E p \in Procs : Writer_CloseFile(p)
    \/ \E p \in Procs : Writer_OnClose(p)

\* ---------------------------------- one Stream and its GetWriter callers

\* NewStream: no Writer, no handle, and no file yet.
GetWriterInit ==
    /\ g_writer = 0
    /\ g_cnt = 0
    /\ g_len = 0
    /\ g_off = [w \in Procs |-> 0]
    /\ g_closed = {}
    /\ g_pc = [p \in Procs |-> "idle"]
    /\ g_got = [p \in Procs |-> 0]
    /\ g_made = {}
    /\ g_creates = 0

\* Stream.GetWriter, line 142: s.writer == nil, read without a lock. With a
\* Writer there the call goes to line 150.
GetWriter_Check(p) ==
    /\ g_pc[p] = "idle"
    /\ g_pc' = [g_pc EXCEPT ![p] = IF g_writer = 0 THEN "gw_create" ELSE "gw_ret"]
    /\ g_got' = [g_got EXCEPT ![p] = 0]
    /\ UNCHANGED <<g_writer, g_cnt, g_len, g_off, g_closed, g_made, g_creates>>
    /\ UNCHANGED outsideGetWriter

\* Stream.GetWriter, line 143: fs.Create makes the file or truncates it.
GetWriter_Create(p) ==
    /\ g_pc[p] = "gw_create"
    /\ g_len' = 0
    /\ g_creates' = g_creates + 1
    /\ g_pc' = [g_pc EXCEPT ![p] = "gw_new"]
    /\ UNCHANGED <<g_writer, g_cnt, g_off, g_closed, g_got, g_made>>
    /\ UNCHANGED outsideGetWriter

\* Stream.GetWriter, line 147: s.writer = NewWriter(f, s.dec).
GetWriter_New(p) ==
    /\ g_pc[p] = "gw_new"
    /\ g_writer' = p
    /\ g_made' = g_made \cup {p}
    /\ g_pc' = [g_pc EXCEPT ![p] = "gw_inc"]
    /\ UNCHANGED <<g_cnt, g_len, g_off, g_closed, g_got, g_creates>>
    /\ UNCHANGED outsideGetWriter

\* Stream.GetWriter, line 148: s.inc().
GetWriter_Inc(p) ==
    /\ g_pc[p] = "gw_inc"
    /\ g_cnt' = g_cnt + 1
    /\ g_pc' = [g_pc EXCEPT ![p] = "gw_ret"]
    /\ UNCHANGED <<g_writer, g_len, g_off, g_closed, g_got, g_made, g_creates>>
    /\ UNCHANGED outsideGetWriter

\* Stream.GetWriter, line 150: return s.writer, nil.
GetWriter_Return(p) ==
    /\ g_pc[p] = "gw_ret"
    /\ g_got' = [g_got EXCEPT ![p] = g_writer]
    /\ g_pc' = [g_pc EXCEPT ![p] = "idle"]
    /\ UNCHANGED <<g_writer, g_cnt, g_len, g_off, g_closed, g_made, g_creates>>
    /\ UNCHANGED outsideGetWriter

\* Writer.Write of one byte on the Writer the goroutine got: file.Write puts
\* it at the offset of that Writer's file handle.
GotWrite(p) ==
    /\ g_pc[p] = "idle"
    /\ g_got[p] # 0
    /\ g_got[p] \notin g_closed
    /\ g_off[g_got[p]] < MaxBytes
    /\ g_off' = [g_off EXCEPT ![g_got[p]] = @ + 1]
    /\ g_len' = IF g_len < g_off[g_got[p]] + 1 THEN g_off[g_got[p]] + 1 ELSE g_len
    /\ UNCHANGED <<g_writer, g_cnt, g_closed, g_pc, g_got, g_made, g_creates>>
    /\ UNCHANGED outsideGetWriter

\* Writer.Close on the Writer the goroutine got, if it is open: closed,
\* file.Close, on_close (Stream.dec).
GotClose(p) ==
    /\ g_pc[p] = "idle"
    /\ g_got[p] # 0
    /\ g_got[p] \notin g_closed
    /\ g_closed' = g_closed \cup {g_got[p]}
    /\ g_cnt' = g_cnt - 1
    /\ UNCHANGED <<g_writer, g_len, g_off, g_pc, g_got, g_made, g_creates>>
    /\ UNCHANGED outsideGetWriter

NextGetWriter ==
    \/ \E p \in Procs : GetWriter_Check(p)
    \/ \E p \in Procs : GetWriter_Create(p)
    \/ \E p \in Procs : GetWriter_New(p)
    \/ \E p \in Procs : GetWriter_Inc(p)
    \/ \E p \in Procs : GetWriter_Return(p)
    \/ \E p \in Procs : GotWrite(p)
    \/ \E p \in Procs : GotClose(p)

\* ------------------------------------------------------ the specifications

Init ==
    /\ CacheInit /\ StreamInit /\ LoadInit /\ HandleInit /\ SizeInit
    /\ WriterInit /\ GetWriterInit

Spec == Init /\ [][Next]_vars

SpecClean == Init /\ [][NextClean]_vars

\* A Get under way runs on and gets the registry lock when it is free again
\* and again (sync.RWMutex does not starve a waiter), and a tick under way
\* runs on. Nothing makes a client close a handle, so a Remove that waits for
\* handles may wait for ever.
SpecGetFair ==
    /\ Spec
    /\ \A p \in Procs : /\ SF_vars(GetCreate(p))
                        /\ WF_vars(GetPut(p))
                        /\ WF_vars(GetFail(p))
    /\ \A k \in Keys : WF_vars(TickCheck(k))
    /\ WF_vars(TickReap) /\ WF_vars(TickWait) /\ WF_vars(TickRemove)
    /\ WF_vars(TickEnd)

\* A Remove under way runs on, and the clients close every handle they hold.
\* Nothing makes a client start a Get or a Remove, or the reaper tick.
SpecFair ==
    /\ Spec
    /\ \A p \in Procs : WF_vars(RemoveWait(p)) /\ WF_vars(RemoveUnlink(p))
    /\ \A s \in StreamIds : WF_vars(ReaderClose(s)) /\ WF_vars(WriterClose(s))

SpecStream == Init /\ [][NextStream]_vars

\* The Go scheduler runs every goroutine that can run: a Write or a Close
\* under way goes on, and so does a Read or a ReadAt under way. Nothing
\* makes a client start a call.
SpecStreamFair ==
    /\ SpecStream
    /\ WF_vars(WritePublish) /\ WF_vars(WriteBroadcast) /\ WF_vars(CloseFile)
    /\ \A r \in Readers :
         WF_vars(FileRead(r)) /\ WF_vars(WaitRLock(r)) /\ WF_vars(WaitCheck(r))

SpecLoad == Init /\ [][NextLoad]_vars

SpecHandle == Init /\ [][NextHandle]_vars

SpecSize == Init /\ [][NextSize]_vars

SpecWriter == Init /\ [][NextWriter]_vars

SpecGetWriter == Init /\ [][NextGetWriter]_vars

\* A call under way runs on; nothing makes a client start one.
SpecHandleFair ==
    /\ SpecHandle
    /\ \A p \in Procs :
         /\ WF_vars(NextReaderCheck(p)) /\ WF_vars(NextReaderInc(p))
         /\ WF_vars(NextReaderOpen(p)) /\ WF_vars(StreamRemoveWait(p))
         /\ WF_vars(StreamRemoveUnlink(p)) /\ WF_vars(WriterCloseLock(p))

\* ------------------------------------------------- properties of the cache

\* C1: of the Streams created for one key and not yet detached by a Remove or
\* a reap, at most one had its writer returned by Get: concurrent Get(K) calls
\* on an absent key hand out one writer, and no second Stream takes the
\* registry entry of a Stream that is still registered.
C1_SingleWriter ==
    \A s1, s2 \in StreamIds :
        ( /\ st[s1].wout /\ ~st[s1].removing
          /\ st[s2].wout /\ ~st[s2].removing
          /\ st[s1].name = st[s2].name ) => s1 = s2

C8_RegisteredFileExists ==
    \A k \in Keys : streams[k] # NoStream => fexists[st[streams[k]].name]

C10_TickEvictsIdle ==
    (tpc = "loop" /\ todo = {}) =>
        \A k \in tickIdle : streams[k] = NoStream /\ ~fexists[fileName(k)]

C34_GetNeverErrRemoving ==
    /\ \A k \in Keys :
          getStream(k) # NoStream => NextReaderErr(getStream(k)) # "ErrRemoving"
    /\ \A p \in Procs :
          pc[p] = "get_next" => NextReaderErr(ps[p]) # "ErrRemoving"
    /\ last.err # "ErrRemoving"

\* While a Remove(K) waits with its Stream marked removing, a Get(K) has
\* found the fresh Stream registered since and returned a reader of it.
C34_Witness ==
    \E p \in Procs :
        /\ pc[p] = "rm_wait"
        /\ isRemoving(ps[p])
        /\ st[ps[p]].cnt > 0
        /\ getStream(pkey[p]) # NoStream
        /\ last = Returned(getStream(pkey[p]), NoStream, "nil", TRUE)

\* C35: while the tick is in Stream.Remove it holds the registry lock and the
\* Stream's handle count is zero, so grp.Wait does not block; and as long as
\* the tick holds the lock no step raises the handle count of any Stream.
C35_TickRemoveNeverBlocks ==
    [][/\ tpc' \in {"remove", "unlink"} =>
             (mu' = ReaperId /\ st'[ts'].cnt = 0)
       /\ (mu = ReaperId /\ mu' = ReaperId) =>
             \A s \in StreamIds : st'[s].cnt <= st[s].cnt]_vars

\* The tick is in Stream.Remove of K's Stream while a Get(K) that missed
\* waits for the registry lock.
C35_Witness ==
    /\ tpc = "remove"
    /\ \E p \in Procs : pc[p] = "get_lock" /\ fileName(pkey[p]) = tkey

\* C36: a Remove that is in Stream.Remove does not hold the registry lock;
\* and a Get that waits for the lock while a Remove is blocked on open
\* handles returns, whether or not those handles are ever closed.
C36_BlockedRemoveHoldsNoLock ==
    /\ [][\A p \in Procs : pc'[p] \in {"rm_wait", "rm_unlink"} => mu' # p]_vars
    /\ \A q \in Procs :
          (/\ pc[q] = "get_lock"
           /\ \E p \in Procs : pc[p] = "rm_wait" /\ st[ps[p]].cnt > 0)
              ~> (pc[q] = "idle")

\* A Remove(K) is blocked on an open handle while a Get(K) that missed holds
\* the registry lock and is about to register its new Stream.
C36_Witness ==
    \E p \in Procs, q \in Procs :
        /\ pc[p] = "rm_wait"
        /\ st[ps[p]].cnt > 0
        /\ pc[q] = "get_next"
        /\ pkey[q] = pkey[p]
        /\ mu = q

\* C13: while a Remove(K) waits for the handles of the Stream it took out of
\* the registry, K's entry is not that Stream: it is absent (Exists is false
\* and a Get is a miss) or it is a fresh Stream that a Get has registered
\* since, with its writer returned.
C13_DetachedWhileWaiting ==
    \A p \in Procs :
        pc[p] = "rm_wait" =>
            LET s == getStream(pkey[p]) IN
            /\ s # ps[p]
            /\ s # NoStream => (st[s].wout /\ ~st[s].removing)

\* A Remove is blocked on an open handle and a Get has registered a fresh
\* Stream for the key, whose Writer is open.
C13_Witness ==
    \E p \in Procs :
        /\ pc[p] = "rm_wait"
        /\ st[ps[p]].cnt > 0
        /\ getStream(pkey[p]) # NoStream
        /\ st[getStream(pkey[p])].writer = "open"

C27_PendingRemoveReturns ==
    /\ \A p \in Procs : (pc[p] = "rm_wait") ~> (pc[p] = "idle")
    /\ [][/\ \A p \in Procs :
              /\ (pc[p] # "rm_wait" /\ pc'[p] = "rm_wait") =>
                    (~st[ps'[p]].removing /\ st'[ps'[p]].removing)
              /\ (pc[p] = "rm_unlink" /\ pc'[p] # "rm_unlink") =>
                    (pc'[p] = "idle" /\ ~fexists'[st[ps[p]].name])
              /\ \A q \in Procs \ {p} :
                    (pc'[p] \in {"rm_wait", "rm_unlink"}
                       /\ pc'[q] \in {"rm_wait", "rm_unlink"}) => ps'[p] # ps'[q]
              /\ (pc'[p] \in {"rm_wait", "rm_unlink"}
                    /\ tpc' \in {"remove", "unlink"}) => ps'[p] # ts'
         /\ \A s \in StreamIds : st[s].removing => st'[s].removing]_vars

\* A Remove has waited for a Stream whose writer and reader Get had handed
\* out, both are closed by now, and it is about to unlink the file.
C27_Witness ==
    \E p \in Procs :
        /\ pc[p] = "rm_unlink"
        /\ st[ps[p]].wout /\ st[ps[p]].writer = "closed" /\ st[ps[p]].readers = 0
        /\ getStream(pkey[p]) = NoStream
        /\ tpc = "idle"

\* C28: of the Remove(K) calls and reaper ticks that run against one entry,
\* one detaches it and is then the only one in Stream.Remove of its Stream:
\* the step that takes a Stream out of its entry is the step in which one
\* caller, and no second one, enters Stream.Remove of it; nobody enters
\* Stream.Remove of a Stream that was in no entry; and a Remove(K) that finds
\* no entry while another caller is in Stream.Remove of K's Stream returns nil
\* and leaves the Stream, the file and the other caller as they are.
C28_OneRemoverPerEntry ==
    [][\A s \in StreamIds :
         LET before == InStreamRemove(s, pc, ps, tpc, ts)
             after == InStreamRemove(s, pc', ps', tpc', ts')
             detached == \E k \in Keys : streams[k] = s /\ streams'[k] = NoStream
             cleaning == \E p \in Procs : pc[p] = "idle" /\ pc'[p] = "cl_rm"
         IN  /\ Cardinality(after) <= 1
             /\ after # {} => \A k \in Keys : streams'[k] # s
             /\ (detached /\ ~cleaning) =>
                   (before = {} /\ Cardinality(after) = 1 /\ st'[s].removing)
             /\ (after # {} /\ after # before) => (before = {} /\ detached)
             /\ \A p \in Procs, k \in Keys :
                   (RemoveMissing(p, k) /\ before # {} /\ st[s].name = fileName(k)) =>
                       /\ last'.err = "nil"
                       /\ after = before
                       /\ st'[s] = st[s]
                       /\ fexists'[st[s].name] = fexists[st[s].name]]_vars

\* A Remove(K) has found no entry and returned while another goroutine is in
\* Stream.Remove of the Stream it detached from K, waiting for its handles.
C28_Witness ==
    /\ last = RemovedNothing
    /\ \E p \in Procs :
          /\ pc[p] = "rm_wait"
          /\ st[ps[p]].cnt > 0
          /\ getStream(pkey[p]) = NoStream

\* C29: when no Get, Remove or tick is under way and every handle Get returned
\* is closed, a file exists exactly for the names that have a registry entry,
\* and every Stream's handle count is zero.
C29_QuiescentNoLeak ==
    (/\ \A p \in Procs : pc[p] = "idle"
     /\ tpc = "idle"
     /\ \A s \in StreamIds : st[s].readers = 0 /\ st[s].writer # "open")
    => /\ \A k \in Keys : fexists[fileName(k)] <=> (getStream(k) # NoStream)
       /\ \A s \in StreamIds : st[s].cnt = 0

\* C18: a Remove of a name without a registry entry returns nil and leaves
\* the registry, every Stream and the files as they are; and no Remove goes
\* on to Stream.Remove for a name that has no entry.
C18_RemoveMissingIsNoOp ==
    [][\A p \in Procs :
         /\ \A k \in Keys :
              RemoveMissing(p, k) =>
                  /\ last'.err = "nil"
                  /\ UNCHANGED <<streams, st, fexists, root, pc>>
         /\ (pc[p] = "idle" /\ pc'[p] = "rm_wait") =>
                streams[fileName(pkey'[p])] # NoStream]_vars

\* A Remove of a name without an entry has returned; the name has a file
\* left by a Stream that is no longer registered.
C18_Witness ==
    /\ last = RemovedNothing
    /\ \E k \in Keys : streams[fileName(k)] = NoStream /\ fexists[fileName(k)]

\* C19: when Clean, called with no stream in use, has come back from
\* RemoveAll, the registry has no entry and no cache file exists; and in a
\* state where a Get or an Exists can look the registry up (c.mu is not
\* held) while a Clean is under way, the Clean has not yet touched it.
C19_CleanEmptiesAll ==
    \A p \in Procs :
        /\ pc[p] = "cl_ret" =>
              \A k \in Keys : getStream(k) = NoStream /\ ~fexists[fileName(k)]
        /\ pc[p] \in {"cl_rm", "cl_ret"} =>
              (mu = p /\ \A k \in Keys : getStream(k) = NoStream)

\* Clean has emptied a registry that held an entry with a file.
C19_Witness ==
    \E p \in Procs :
        /\ pc[p] = "cl_ret"
        /\ \E s \in StreamIds : st[s].wout /\ ~st[s].removing

\* ------------------------------------------------ properties of the Stream

\* C3: what a Reader's Read calls have returned so far is a prefix of the
\* bytes file.Write has accepted, in the order it accepted them, whatever the
\* other Readers do.
C3_ReadPrefix ==
    \A r \in Readers :
        /\ Len(rd[r].got) <= Len(file)
        /\ rd[r].got = SubSeq(file, 1, Len(rd[r].got))

\* Two Readers of an open Writer, one has every byte, the other is behind.
C3_Witness ==
    /\ ~closed
    /\ Len(file) = MaxBytes
    /\ \E r1, r2 \in Readers :
         /\ rd[r1].att = "open" /\ rd[r2].att = "open"
         /\ rd[r1].got = file
         /\ Len(rd[r2].got) = 1

\* C30: a Write that hands file.Write no byte gets 0 back, publishes the size
\* it found and returns 0; its Broadcast makes every parked Reader take the
\* lock and test the loop condition again, and a Reader leaves Writer.Wait
\* only with the Writer closed or the size beyond its offset; so as long as
\* the Writer is open and only such Writes were made, no Read or ReadAt has
\* returned.
C30_ZeroWriteWakesNoReader ==
    [][/\ (wpc = "idle" /\ wpc' = "wrote" /\ file' = file) => wrote' = 0
       /\ (wpc = "wrote" /\ wrote = 0 /\ wpc' = "bcast") =>
             (size' = size /\ wrote' = 0)
       /\ (wpc = "bcast" /\ wpc' = "idle") =>
             \A r \in Readers :
                 rd[r].pc = "parked" =>
                     rd'[r] = [rd[r] EXCEPT !.pc = "relock"]
       /\ \A r \in Readers :
             /\ (rd[r].pc = "check" /\ rd'[r].pc # "check") =>
                   IF ~closed /\ Offset(rd[r]) >= size
                   THEN rd'[r] = [rd[r] EXCEPT !.pc = "parked"]
                   ELSE rd'[r].pc \in {"file", "idle"}
             /\ (Len(file') = 0 /\ ~closed') =>
                   /\ rd'[r].got = <<>> /\ rd'[r].err = "nil" /\ ~rd'[r].empty
                   /\ rd[r].pc # "idle" => rd'[r].pc # "idle"]_vars

\* A Reader parked in Wait has been woken and has yet to take the lock, with
\* the Writer open and idle and the file still empty: the Broadcast that woke
\* it was that of a Write of zero bytes, which has returned.
C30_Witness ==
    /\ ~closed /\ Len(file) = 0 /\ wpc = "idle"
    /\ \E r \in Readers : rd[r].pc = "relock" /\ rd[r].kind = "Read"

\* C4: a Read or ReadAt that returned EOF did so with the Writer closed and
\* its offset equal to the published size, and no call has returned zero
\* bytes with a nil error.
C4_EOFOnlyAtClosedEnd ==
    \A r \in Readers :
        /\ rd[r].err = "EOF" => (closed /\ rd[r].at = size)
        /\ ~rd[r].empty

\* A Reader that was attached while the Writer was open has read every byte
\* and then EOF.
C4_Witness ==
    \E r \in Readers :
        /\ ~rd[r].late
        /\ rd[r].err = "EOF"
        /\ rd[r].at = MaxBytes
        /\ rd[r].got = file

C32_LockFreeAfterClose ==
    wpc = "idle" => ~wlock

\* C5: a Read blocked in Writer.Wait (parked in cond.Wait, or woken and
\* waiting to take RLock again) returns once the Writer is closed.
C5_BlockedReadReturns ==
    \A r \in Readers :
        (closed /\ rd[r].kind = "Read" /\ rd[r].pc \in {"parked", "relock"})
            ~> (rd[r].pc = "idle")

\* C6: a Read of a Reader obtained after the Writer was closed, which has
\* come to the end of the data, returns EOF with every byte of the file read.
C6_LateReaderReadsAll ==
    \A r \in Readers :
        (rd[r].late /\ rd[r].kind = "Read" /\ rd[r].pc = "rlock")
            ~> (rd[r].pc = "idle" /\ rd[r].err = "EOF" /\ rd[r].got = file)

\* --------------------------------------------- properties of the reload

\* C11: once the new Cache is constructed, every file an earlier Cache wrote
\* and closed has a registry entry, a Get of it returns no writer, and a
\* Reader of it that has come to EOF has read exactly the bytes written.
C11_ReloadRegistersAll ==
    lpc = "up" =>
        /\ \A k \in Keys : disk[k].old => lreg[k].alloc
        /\ (lget.op = "Get" /\ disk[lget.key].old) => lget.w = "nil"
        /\ (lrd.att = "open" /\ disk[lrd.key].old /\ lrd.err = "EOF")
               => lrd.got = disk[lrd.key].stored

\* C25: a load from the directory listing that finds a file it cannot open
\* can go on (c.mu is free for the Remove it calls), and once the Cache is
\* constructed no such file has an entry and every other file has one.
C25_LoadSkipsBadFile ==
    lvia = "ReadDir" =>
        /\ lpc = "remove_lock" => lmu = "free"
        /\ lpc = "up" =>
              \A k \in Keys :
                  /\ k \in lbad => ~lreg[k].alloc
                  /\ (disk[k].old /\ k \notin lbad) => lreg[k].alloc

\* ------------------------------------- properties of a Stream's handles

\* C12: a NextReader call that began after Stream.Remove marked the Stream has
\* returned ErrRemoving and no Reader, and has not moved the handle count.
C12_RemovingRejectsNextReader ==
    \A p \in Procs :
        (hres[p].op = "NextReader" /\ hres[p].marked) =>
            (hres[p].err = "ErrRemoving" /\ ~hres[p].r /\ hres[p].delta = 0)

\* A NextReader was refused while the Remove still waits for a live handle.
C12_Witness ==
    \E p, q \in Procs :
        /\ hres[p].op = "NextReader" /\ hres[p].marked
        /\ hres[p].err = "ErrRemoving"
        /\ hpc[q] = "rm_wait"
        /\ st[TheStream].cnt > 0

\* C24: a NextReader call in which fs.Open failed has returned the error and
\* no Reader, and its inc and dec have left the handle count where it was.
C24_OpenFailureRestoresCount ==
    \A p \in Procs :
        (hres[p].op = "NextReader" /\ hres[p].err = "ErrOpen" /\ ~hpanic) =>
            (~hres[p].r /\ hrd[p].att = "none" /\ hres[p].delta = 0)

\* fs.Open failed in a NextReader on a Stream that was not being removed, and
\* a Remove called afterwards has returned.
C24_Witness ==
    /\ \E p \in Procs :
         /\ hres[p].op = "NextReader" /\ hres[p].err = "ErrOpen"
         /\ ~hres[p].marked /\ ~hres[p].late
    /\ st[TheStream].removing
    /\ st[TheStream].cnt = 0
    /\ \A q \in Procs : hpc[q] = "idle"

\* The handles of the Stream that are live: the Writer until it is closed,
\* every Reader returned and not closed, every Reader NextReader is making.
LiveHandles ==
    (IF st[TheStream].writer = "open" THEN 1 ELSE 0)
    + Cardinality({p \in Procs : hrd[p].att = "open"})
    + Cardinality({p \in Procs : hpc[p] = "nr_open"})

\* C15: a Close call on a Writer that is already closed returns (the error),
\* however many Close calls came before it.
C15_LaterCloseReturns ==
    \A p \in Procs :
        (hpc[p] = "wc_lock" /\ ~hpanic) ~> (hpc[p] = "idle" \/ hpanic)

\* C33: the Stream's handle count is never below zero, however often Close
\* is called on a Reader or on the Writer.
C33_CountNeverNegative ==
    \A s \in StreamIds : st[s].cnt >= 0

\* C37: when a Remove is past grp.Wait and about to unlink the file, no file
\* handle of the Stream is open: the Writer's file is closed and so is every
\* Reader's.
C37_UnlinkAfterAllClosed ==
    \A p \in Procs :
        (hpc[p] = "rm_unlink" /\ ~hpanic) =>
            /\ st[TheStream].writer # "open"
            /\ \A q \in Procs : hrd[q].att # "open"

\* C17: the Stream's handle count is the number of its live handles, and
\* IsOpen is true exactly when there is a live handle.
C17_CountIsLiveHandles ==
    (st[TheStream].alloc /\ ~hpanic) =>
        /\ st[TheStream].cnt = LiveHandles
        /\ IsOpen(TheStream) <=> LiveHandles > 0

\* C20: no NextReader does its inc on a Stream that is marked removing, and
\* while a Remove is past grp.Wait and about to unlink, no Reader of the
\* Stream is open or being made.
C20_NoAttachAfterMark ==
    \A p \in Procs :
        /\ ~hres[p].late
        /\ \A q \in Procs :
             hpc[q] = "rm_unlink" => (hpc[p] # "nr_open" /\ hrd[p].att # "open")

\* C16: a ReadAt on a closed Writer's stream at an offset at or past the
\* published size returns, with no byte and EOF (unless a repeated
\* Writer.Close has left the Writer's lock held).
C16_ReadAtPastEndReturns ==
    \A r \in Readers :
        (closed /\ wpc = "idle" /\ rd[r].kind = "ReadAt" /\ rd[r].pc = "file"
           /\ rd[r].off >= size)
            ~> \/ rd[r].pc = "idle" /\ rd[r].err = "EOF"
               \/ wlock /\ wpc = "idle"

\* ------------------------------------------------ properties of the sizes

\* C14: a cache.Size of the key whose registered Stream's Writer is closed
\* returns what that Writer's Write calls returned in all (its published
\* size at Close).
C14_SizeIsBytesWritten ==
    (zsize.op = "Size" /\ zsize.err = "nil" /\ zsize.sealed) =>
        zsize.n = zst[zsize.s].size

\* ------------------------------------------------ properties of the Writer

\* C21: no step of a Write or a Close makes the published size smaller, and
\* no step changes it once the closed flag is set.
C21_SizeFrozenAfterClose ==
    [][/\ w_size' >= w_size
       /\ w_closed => w_size' = w_size]_vars

\* C22: over all GetWriter calls on the Stream, concurrent or one after the
\* other, fs.Create ran at most once and one Writer was made, the handle count
\* was incremented at most once, and every call returned that one Writer.
C22_OneWriterPerStream ==
    /\ g_creates <= 1
    /\ Cardinality(g_made) <= 1
    /\ g_cnt + Cardinality(g_closed) <= 1
    /\ \A p \in Procs : g_got[p] # 0 => g_made = {g_got[p]}

====
